---------------------------- MODULE Spec2Model ----------------------------
(***************************************************************************)
(* Model of cloud_slrm.py: the sweep-and-reclaim detector (detect_signals  *)
(* with compute_prev_day_levels and the US daylight-saving helpers) and    *)
(* the polling pass run_once with its CSV identity store and its Telegram  *)
(* notifier.                                                               *)
(*                                                                         *)
(* Representation.                                                         *)
(*   date       its proleptic Gregorian ordinal (datetime.date.toordinal)  *)
(*   timestamp  minutes since ordinal 0 in Asia/Kolkata, which has no      *)
(*              daylight saving: date*1440 + minute of the day             *)
(*   price      a positive integer (ticks); NaN is the value 0, and every  *)
(*              comparison that has a NaN operand is false, as in IEEE 754 *)
(*   DataFrame  a sequence of bars sorted by time (fetch_td_series ends    *)
(*              with sort_index); array index i of the source (0-based) is *)
(*              position i+1 of the sequence                               *)
(***************************************************************************)
EXTENDS Integers, Sequences, FiniteSets, TLC

VARIABLES
    pc,          \* position of the process under study
    df1,         \* scan series (1min) the feed returns
    df15,        \* reference series (15min) the feed returns
    trades,      \* detect_signals' result / run_once's candidates
    ci,          \* run_once: 1-based position in candidates of the for loop
    csv,         \* signals.csv: [exists, rows]
    sent,        \* telegram_send calls so far: [id, ok, run]
    recs,        \* append attempts so far: [id, ok, run]
    runs,        \* completed run_once calls
    passes,      \* completed run_once calls that ran detect_signals
    fault,       \* has an identity-store read or append failed so far
    dt,          \* is_us_dst: the date asked about
    dst,         \* is_us_dst: the answer
    web          \* the process around run_once: polling threads started, the
                 \* Flask server and its handler, locals of the CSV appends

vars == <<pc, df1, df15, trades, ci, csv, sent, recs, runs, passes, fault, dt, dst,
          web>>

-----------------------------------------------------------------------------
(* Bounds of the model *)

MaxBars == 4        \* bars of the scan series
MaxPrice == 3       \* prices are 1..MaxPrice
BaseYear == 2024    \* the year the modelled bars are in
YearSpan == 8       \* is_us_dst is explored for BaseYear-YearSpan..BaseYear+YearSpan
MaxRuns == 2        \* polling cycles explored
MaxRefBars == 3     \* reference bars on the scanned date
MaxSweepBars == 6   \* bars of the scan series at gold prices
MaxBiasBars == 4    \* reference bars on the scanned date, for the bias rule
MaxRequests == 2    \* HTTP requests served

(* Program constants *)

RECLAIM_LOOKAHEAD == 3
TP_MULT == 3
PRE_BARS == 3
PAD_MINUTES == 60
NaN == 0

-----------------------------------------------------------------------------
(* datetime.date: ordinals and weekdays, as CPython computes them *)

IsLeap(y) == (y % 4 = 0) /\ ((y % 100 # 0) \/ (y % 400 = 0))

DaysBeforeYear(y) ==
    LET p == y - 1 IN p * 365 + (p \div 4) - (p \div 100) + (p \div 400)

DaysInMonth(y, m) ==
    IF m = 2 THEN (IF IsLeap(y) THEN 29 ELSE 28)
    ELSE IF m \in {4, 6, 9, 11} THEN 30 ELSE 31

\* _DAYS_BEFORE_MONTH, one more after February of a leap year
DaysBeforeMonth(y, m) ==
    <<0, 31, 59, 90, 120, 151, 181, 212, 243, 273, 304, 334>>[m]
        + (IF m > 2 /\ IsLeap(y) THEN 1 ELSE 0)

\* date(y, m, d).toordinal()
Ymd2Ord(y, m, d) == DaysBeforeYear(y) + DaysBeforeMonth(y, m) + d

\* date.weekday(): Monday is 0, Sunday is 6
Weekday(o) == (o + 6) % 7

\* date.year: the year whose first day is the last one not after o; 400
\* years are 146097 days, which places it within one of o*400/146097
YearOf(o) ==
    LET k == (o * 400) \div 146097
    IN  CHOOSE y \in k..(k + 2) :
            Ymd2Ord(y, 1, 1) <= o /\ o < Ymd2Ord(y + 1, 1, 1)

\* the first date on or after d whose weekday is Sunday
NextSundayOnOrAfter(d) == d + ((6 - Weekday(d)) % 7)

second_sunday_of_march(y) == NextSundayOnOrAfter(Ymd2Ord(y, 3, 8))

first_sunday_of_november(y) == NextSundayOnOrAfter(Ymd2Ord(y, 11, 1))

is_us_dst_EndInclusive(d) ==
    LET y == YearOf(d)
    IN  second_sunday_of_march(y) <= d /\ d <= first_sunday_of_november(y)

is_us_dst(d) ==
    LET y == YearOf(d)
    IN  second_sunday_of_march(y) <= d /\ d < first_sunday_of_november(y)

-----------------------------------------------------------------------------
(* Timestamps *)

MinutesPerDay == 1440

At(day, hh, mm) == day * MinutesPerDay + hh * 60 + mm

\* t.date()
DateOf(t) == t \div MinutesPerDay

-----------------------------------------------------------------------------
(* Floating point with NaN *)

IsNaN(x) == x = NaN

Lt(a, b) == ~IsNaN(a) /\ ~IsNaN(b) /\ a < b
Gt(a, b) == ~IsNaN(a) /\ ~IsNaN(b) /\ a > b
Le(a, b) == ~IsNaN(a) /\ ~IsNaN(b) /\ a <= b
Ge(a, b) == ~IsNaN(a) /\ ~IsNaN(b) /\ a >= b

SetMax(S) == CHOOSE x \in S : \A z \in S : z <= x
SetMin(S) == CHOOSE x \in S : \A z \in S : x <= z

\* pandas Series.max() / .min(): NaN is skipped, an all-NaN series gives NaN
PdMax(S) == IF S \ {NaN} = {} THEN NaN ELSE SetMax(S \ {NaN})
PdMin(S) == IF S \ {NaN} = {} THEN NaN ELSE SetMin(S \ {NaN})

\* numpy ndarray.max() / .min(): NaN propagates
NpMax(S) == IF NaN \in S THEN NaN ELSE SetMax(S)
NpMin(S) == IF NaN \in S THEN NaN ELSE SetMin(S)

-----------------------------------------------------------------------------
(* compute_prev_day_levels *)

Dates(df) == {DateOf(df[i].time) : i \in DOMAIN df}

OnDate(df, d) == SelectSeq(df, LAMBDA b : DateOf(b.time) = d)

Column(df, f) == {df[i][f] : i \in DOMAIN df}

PrevDay_Same(d) == d

\* prev = d - timedelta(days=1)
PrevDay(d) == d - 1

\* the dates compute_prev_day_levels gives an entry
LevelDays(df) == {d \in Dates(df) : OnDate(df, PrevDay(d)) # <<>>}

compute_prev_day_levels(df) ==
    [d \in LevelDays(df) |->
        LET prev_df == OnDate(df, PrevDay(d))
        IN  [PDH |-> PdMax(Column(prev_df, "High")),
             PDL |-> PdMin(Column(prev_df, "Low"))]]


-----------------------------------------------------------------------------
(* detect_signals: the session window of a date *)

SessionStart(day) == At(day, IF is_us_dst(day) THEN 19 ELSE 20, 0)

SessionEnd(day) == At(day, IF is_us_dst(day) THEN 21 ELSE 22, 0)

\* the bars window_df keeps
InPadded(t, start, end) == t >= start - PAD_MINUTES /\ t <= end + PAD_MINUTES

WindowDf(df, start, end) == SelectSeq(df, LAMBDA b : InPadded(b.time, start, end))

InSession_Padded(t, start, end) == InPadded(t, start, end)

\* reclaim_time >= start and reclaim_time <= end
InSession(t, start, end) == t >= start /\ t <= end

-----------------------------------------------------------------------------
(* detect_signals: bias and the order of the directions *)

\* the bias with a difference of zero taken as bull
Bias_ZeroIsBull(df, day) ==
    LET day15 == OnDate(df, day)
        n == Len(day15)
    IN  IF n >= 3
        THEN (IF Ge(day15[n].Close, day15[n - 2].Close) THEN "bull" ELSE "bear")
        ELSE "neutral"

\* iloc[-1] is the last bar of the date, iloc[-3] the third from the end
Bias(df, day) ==
    LET day15 == OnDate(df, day)
        n == Len(day15)
    IN  IF n >= 3
        THEN (IF Gt(day15[n].Close, day15[n - 2].Close) THEN "bull" ELSE "bear")
        ELSE "neutral"

Order_BearSellOnly(bias, PDL, PDH) ==
    IF bias # "bear" THEN << <<"buy", PDL>>, <<"sell", PDH>> >>
    ELSE << <<"sell", PDH>> >>

Order(bias, PDL, PDH) ==
    IF bias # "bear" THEN << <<"buy", PDL>>, <<"sell", PDH>> >>
    ELSE << <<"sell", PDH>>, <<"buy", PDL>> >>

-----------------------------------------------------------------------------
(* detect_signals: one sweep index si (0-based) of the window bars w *)

highs(w, i) == w[i + 1].High
lows(w, i) == w[i + 1].Low
closes(w, i) == w[i + 1].Close
times(w, i) == w[i + 1].time

Min2(a, b) == IF a < b THEN a ELSE b
Max2(a, b) == IF a > b THEN a ELSE b

\* the sweeps with a bar that only touches the level counted in
SweepIdxs_NonStrict(w, direction, level) ==
    {i \in 0..(Len(w) - 1) :
        IF direction = "buy" THEN Le(lows(w, i), level) ELSE Ge(highs(w, i), level)}

\* np.where(lows < level) for a buy, np.where(highs > level) for a sell
SweepIdxs(w, direction, level) ==
    {i \in 0..(Len(w) - 1) :
        IF direction = "buy" THEN Lt(lows(w, i), level) ELSE Gt(highs(w, i), level)}

\* the lookahead without its bound
ReclaimRange_Unbounded(w, si) == (si + 1)..(Len(w) - 1)

\* start_reclaim..end_reclaim; empty when start_reclaim > end_reclaim
ReclaimRange(w, si) == (si + 1)..Min2(si + RECLAIM_LOOKAHEAD, Len(w) - 1)

\* start_reclaim + np.where(closes[start_reclaim:end_reclaim+1] <> level)[0]
ReclaimPos(w, direction, level, si) ==
    {j \in ReclaimRange(w, si) :
        IF direction = "buy" THEN Gt(closes(w, j), level) ELSE Lt(closes(w, j), level)}

\* indices pre_start..si-1 of the pre-sweep slice
PreSlice(si) == Max2(0, si - PRE_BARS)..(si - 1)

PreFilterRejects_NonStrict(w, direction, si, ri) ==
    IF direction = "buy"
    THEN Lt(closes(w, ri), NpMax({highs(w, k) : k \in PreSlice(si)}))
    ELSE Gt(closes(w, ri), NpMin({lows(w, k) : k \in PreSlice(si)}))

\* closes[reclaim_idx] <= pre_slice_highs.max() / >= pre_slice_lows.min()
PreFilterRejects(w, direction, si, ri) ==
    IF direction = "buy"
    THEN Le(closes(w, ri), NpMax({highs(w, k) : k \in PreSlice(si)}))
    ELSE Ge(closes(w, ri), NpMin({lows(w, k) : k \in PreSlice(si)}))

Stop(w, direction, si) == IF direction = "buy" THEN lows(w, si) ELSE highs(w, si)

Dist(direction, entry, sl) == IF direction = "buy" THEN entry - sl ELSE sl - entry

Target_TowardsStop(direction, entry, dist) ==
    IF direction = "buy" THEN entry - TP_MULT * dist ELSE entry + TP_MULT * dist

Target(direction, entry, dist) ==
    IF direction = "buy" THEN entry + TP_MULT * dist ELSE entry - TP_MULT * dist

\* The body of the loop over sweep_idxs for one si up to the geometry check:
\* <<>> on every continue before it, else what the check works on.
GeometryInput(w, direction, level, start, end, si) ==
    LET rp == ReclaimPos(w, direction, level, si)
    IN  IF rp = {} THEN <<>>
        ELSE
        LET reclaim_idx == SetMin(rp)
            reclaim_time == times(w, reclaim_idx)
        IN  IF ~InSession(reclaim_time, start, end) THEN <<>>
            ELSE IF PreSlice(si) = {} THEN <<>>
            ELSE IF PreFilterRejects(w, direction, si, reclaim_idx) THEN <<>>
            ELSE
            LET entry == closes(w, reclaim_idx)
                sl == Stop(w, direction, si)
            IN  << [reclaim_time |-> reclaim_time, entry |-> entry, sl |-> sl,
                    dist |-> Dist(direction, entry, sl)] >>

\* The body of the loop over sweep_idxs for one si: <<>> on every continue,
\* <<trade>> when the trade is appended.
TrySweep(w, direction, level, start, end, day, si) ==
    LET g == GeometryInput(w, direction, level, start, end, si)
    IN  IF g = <<>> THEN <<>>
        ELSE IF g[1].dist <= 0 THEN <<>>
        ELSE << [entry_time |-> g[1].reclaim_time, direction |-> direction,
                 entry |-> g[1].entry, sl |-> g[1].sl,
                 tp |-> Target(direction, g[1].entry, g[1].dist), day |-> day] >>

\* for si in sweep_idxs[::-1]: ... break, from index si downwards
RECURSIVE ScanSweeps(_, _, _, _, _, _, _, _)
ScanSweeps(w, direction, level, start, end, day, sweep_idxs, si) ==
    IF si < 0 THEN <<>>
    ELSE IF si \notin sweep_idxs
    THEN ScanSweeps(w, direction, level, start, end, day, sweep_idxs, si - 1)
    ELSE LET t == TrySweep(w, direction, level, start, end, day, si)
         IN  IF t # <<>> THEN t
             ELSE ScanSweeps(w, direction, level, start, end, day, sweep_idxs, si - 1)

\* the same loop over sweep_idxs in ascending order
RECURSIVE ScanSweepsUp(_, _, _, _, _, _, _, _)
ScanSweepsUp(w, direction, level, start, end, day, sweep_idxs, si) ==
    IF si > Len(w) - 1 THEN <<>>
    ELSE IF si \notin sweep_idxs
    THEN ScanSweepsUp(w, direction, level, start, end, day, sweep_idxs, si + 1)
    ELSE LET t == TrySweep(w, direction, level, start, end, day, si)
         IN  IF t # <<>> THEN t
             ELSE ScanSweepsUp(w, direction, level, start, end, day, sweep_idxs, si + 1)

\* the same loop without its break
RECURSIVE ScanSweepsAll(_, _, _, _, _, _, _, _)
ScanSweepsAll(w, direction, level, start, end, day, sweep_idxs, si) ==
    IF si < 0 THEN <<>>
    ELSE IF si \notin sweep_idxs
    THEN ScanSweepsAll(w, direction, level, start, end, day, sweep_idxs, si - 1)
    ELSE TrySweep(w, direction, level, start, end, day, si)
         \o ScanSweepsAll(w, direction, level, start, end, day, sweep_idxs, si - 1)

ScanDirection_OldestFirst(w, direction, level, start, end, day) ==
    IF IsNaN(level) THEN <<>>
    ELSE ScanSweepsUp(w, direction, level, start, end, day,
                      SweepIdxs(w, direction, level), 0)

ScanDirection_NoBreak(w, direction, level, start, end, day) ==
    IF IsNaN(level) THEN <<>>
    ELSE ScanSweepsAll(w, direction, level, start, end, day,
                       SweepIdxs(w, direction, level), Len(w) - 1)

\* the body of "for direction, level in order"
ScanDirection(w, direction, level, start, end, day) ==
    IF IsNaN(level) THEN <<>>
    ELSE ScanSweeps(w, direction, level, start, end, day,
                    SweepIdxs(w, direction, level), Len(w) - 1)

-----------------------------------------------------------------------------
(* detect_signals: one date, all dates *)

\* the loop over the directions leaving at the first NaN level
RECURSIVE ScanOrder_StopsAtNaN(_, _, _, _, _)
ScanOrder_StopsAtNaN(w, order, start, end, day) ==
    IF order = <<>> THEN <<>>
    ELSE IF IsNaN(order[1][2]) THEN <<>>
    ELSE ScanDirection(w, order[1][1], order[1][2], start, end, day)
         \o ScanOrder_StopsAtNaN(w, Tail(order), start, end, day)

\* for direction, level in order
RECURSIVE ScanOrder(_, _, _, _, _)
ScanOrder(w, order, start, end, day) ==
    IF order = <<>> THEN <<>>
    ELSE ScanDirection(w, order[1][1], order[1][2], start, end, day)
         \o ScanOrder(w, Tail(order), start, end, day)

\* the trades of one date once its levels, window bars and bias are known
DayTradesWithBias(w, PDL, PDH, start, end, day, bias) ==
    ScanOrder(w, Order(bias, PDL, PDH), start, end, day)

\* day in prev_levels
HasLevels(levels, day) == day \in DOMAIN levels

\* the body of "for day in dates"
DayTrades(scan, ref, levels, day) ==
    IF ~HasLevels(levels, day) THEN <<>>
    ELSE
    LET start == SessionStart(day)
        end == SessionEnd(day)
        window_df == WindowDf(scan, start, end)
    IN  IF window_df = <<>> THEN <<>>
        ELSE DayTradesWithBias(window_df, levels[day].PDL, levels[day].PDH,
                               start, end, day, Bias(ref, day))

RECURSIVE DetectDays(_, _, _, _)
DetectDays(scan, ref, levels, days) ==
    IF days = {} THEN <<>>
    ELSE LET day == SetMin(days)
         IN  DayTrades(scan, ref, levels, day)
             \o DetectDays(scan, ref, levels, days \ {day})

detect_signals(scan, ref) ==
    DetectDays(scan, ref, compute_prev_day_levels(ref), Dates(scan))

-----------------------------------------------------------------------------
(* Inputs: the series the feed can return *)

Prices == 1..MaxPrice

\* well-formed bars: Low <= Close <= High
BarShapes ==
    {[High |-> h, Low |-> l, Close |-> c] :
        h \in Prices, l \in Prices, c \in Prices} \ 
    {s \in [High : Prices, Low : Prices, Close : Prices] :
        s.Low > s.Close \/ s.Close > s.High}

RECURSIVE SortSet(_)
SortSet(S) == IF S = {} THEN <<>> ELSE <<SetMin(S)>> \o SortSet(S \ {SetMin(S)})

\* the series with the given set of timestamps and the given bar shapes
Series(T, f) ==
    LET ts == SortSet(T)
    IN  [i \in 1..Len(ts) |->
            [time |-> ts[i], High |-> f[i].High, Low |-> f[i].Low,
             Close |-> f[i].Close]]

\* the last day of daylight saving of BaseYear and the first day after it
DstDay == first_sunday_of_november(BaseYear) - 1
StdDay == first_sunday_of_november(BaseYear)

\* on-the-hour timestamps 18:00..23:00: for either day they cover the pad
\* before the session, the session with both its ends, the pad after it and
\* one hour outside the padded window
HourSlots(day) == {At(day, h, 0) : h \in 18..23}

\* a flat reference bar at 10:00
FlatBar(day, p) == [time |-> At(day, 10, 0), High |-> p, Low |-> p, Close |-> p]

-----------------------------------------------------------------------------
(* Spec: detect_signals applied to every scan series of one date *)

NoFile == [exists |-> FALSE, rows |-> <<>>]

\* the process before __main__ has started anything: no polling thread, the
\* server not serving, no handler running, no request served, no detection
\* pass started by a handler; file_exists and exists are the locals of
\* run_once and of force_signal
NoWeb ==
    [threads |-> 0, serving |-> FALSE, handler |-> "none", reqs |-> 0,
     hpasses |-> 0, file_exists |-> FALSE, exists |-> FALSE]

Idle ==
    /\ ci = 0 /\ csv = NoFile /\ sent = <<>> /\ recs = <<>>
    /\ runs = 0 /\ passes = 0 /\ fault = FALSE /\ dt = 0 /\ dst = FALSE
    /\ web = NoWeb

Init ==
    /\ pc = "start"
    /\ trades = <<>>
    /\ \E day \in {DstDay, StdDay} :
         /\ \E S \in SUBSET HourSlots(day) :
              /\ Cardinality(S) <= MaxBars
              /\ \E f \in [1..Cardinality(S) -> BarShapes] : df1 = Series(S, f)
         /\ \E p \in 2..(MaxPrice - 1) :
              df15 = <<FlatBar(day - 1, p), FlatBar(day, p)>>
    /\ Idle

Detect ==
    /\ pc = "start"
    /\ trades' = detect_signals(df1, df15)
    /\ pc' = "done"
    /\ UNCHANGED <<df1, df15, ci, csv, sent, recs, runs, passes, fault, dt, dst, web>>

Next == Detect

Spec == Init /\ [][Next]_vars

-----------------------------------------------------------------------------
(* SpecDays: detect_signals over two dates, with reference bars on any     *)
(* subset of those dates and of the day before them                        *)

\* 19:00, 20:00 and 21:00 of the two dates
DaysSlots == {At(day, h, 0) : day \in {DstDay, StdDay}, h \in 19..21}

RefDays == {DstDay - 1, DstDay, StdDay}

InitDays ==
    /\ pc = "start"
    /\ trades = <<>>
    /\ \E S \in SUBSET DaysSlots :
         /\ Cardinality(S) <= MaxBars - 1
         /\ \E f \in [1..Cardinality(S) -> BarShapes] : df1 = Series(S, f)
    /\ \E R \in SUBSET RefDays :
         LET ds == SortSet(R)
         IN  df15 = [i \in 1..Len(ds) |-> FlatBar(ds[i], 2)]
    /\ Idle

SpecDays == InitDays /\ [][Next]_vars

-----------------------------------------------------------------------------
(* SpecBias: detect_signals on one date with every bias the reference bars *)
(* of that date can give                                                   *)

BiasSlots == {At(DstDay, h, 0) : h \in 18..21}

\* the reference bars of the date: flat bars a quarter of an hour apart
BiasBars(day, cl) ==
    [i \in 1..Len(cl) |->
        [time |-> At(day, 10, 15 * i), High |-> cl[i], Low |-> cl[i],
         Close |-> cl[i]]]

\* two closes give a rising, a falling and an unchanged pair
BiasCloses == 1..2

InitBias ==
    /\ pc = "start"
    /\ trades = <<>>
    /\ \E S \in SUBSET BiasSlots :
         /\ Cardinality(S) <= MaxBars
         /\ \E f \in [1..Cardinality(S) -> BarShapes] : df1 = Series(S, f)
    /\ \E n \in 0..MaxRefBars : \E cl \in [1..n -> BiasCloses] :
         df15 = <<FlatBar(DstDay - 1, 2)>> \o BiasBars(DstDay, cl)
    /\ Idle

SpecBias == InitBias /\ [][Next]_vars

-----------------------------------------------------------------------------
(* SpecBiasRule: detect_signals on one date with up to MaxBiasBars         *)
(* reference bars on it, their closes rising, falling, unchanged or NaN,   *)
(* over scan series in which both directions can give a candidate          *)

\* a flat bar at the level, a bar that sweeps both levels, a bar closing above
\* the level and a bar closing below it
RuleShapes ==
    { [High |-> 2, Low |-> 2, Close |-> 2],
      [High |-> 3, Low |-> 1, Close |-> 2],
      [High |-> 3, Low |-> 2, Close |-> 3],
      [High |-> 2, Low |-> 1, Close |-> 1] }

\* four bars half an hour apart from the start of the session
RuleSlots == {SessionStart(DstDay) + 30 * i : i \in 0..3}

\* closes of the reference bars of the date; to_numeric gives NaN for a
\* close that is no number
RuleCloses == {NaN, 1, 2}

InitBiasRule ==
    /\ pc = "start"
    /\ trades = <<>>
    /\ \E f \in [1..4 -> RuleShapes] : df1 = Series(RuleSlots, f)
    /\ \E n \in 0..MaxBiasBars : \E cl \in [1..n -> RuleCloses] :
         df15 = <<FlatBar(DstDay - 1, 2)>> \o BiasBars(DstDay, cl)
    /\ Idle

SpecBiasRule == InitBiasRule /\ [][Next]_vars

-----------------------------------------------------------------------------
(* SpecNaN: detect_signals over two dates whose reference bars may have no *)
(* number for their high or their low, so that a level of either date can  *)
(* be NaN                                                                  *)

\* High and Low of a reference bar after to_numeric(errors='coerce')
LevelValues == {NaN, 2}

RefBar(day, k, h, l) ==
    [time |-> At(day, 10, 15 * k), High |-> h, Low |-> l, Close |-> 2]

\* one or two reference bars on a date, each with any of the level values
RefBarsOn(day) ==
    {<<RefBar(day, 0, h, l)>> : h \in LevelValues, l \in LevelValues}
    \cup {<<RefBar(day, 0, h, l), RefBar(day, 1, h2, l2)>> :
            h \in LevelValues, l \in LevelValues,
            h2 \in LevelValues, l2 \in LevelValues}

\* four bars half an hour apart from the start of the session of the date
NaNSlots(day) == {SessionStart(day) + 30 * i : i \in 0..3}

\* a flat bar, a bar sweeping both levels, a close above and a close below:
\* with both levels at 2 it gives a buy and a sell
BothDirections ==
    << [High |-> 2, Low |-> 2, Close |-> 2], [High |-> 3, Low |-> 1, Close |-> 2],
       [High |-> 3, Low |-> 2, Close |-> 3], [High |-> 2, Low |-> 1, Close |-> 1] >>

InitNaN ==
    /\ pc = "start"
    /\ trades = <<>>
    /\ \E f \in [1..4 -> RuleShapes] : \E other \in {<<>>, BothDirections} :
         df1 = Series(NaNSlots(DstDay), f)
                 \o Series(IF other = <<>> THEN {} ELSE NaNSlots(StdDay), other)
    /\ \E r0 \in RefBarsOn(DstDay - 1) : \E r1 \in RefBarsOn(DstDay) :
         df15 = r0 \o r1 \o <<RefBar(StdDay, 0, 2, 2)>>
    /\ Idle

SpecNaN == InitNaN /\ [][Next]_vars

-----------------------------------------------------------------------------
(* SpecGeom: detect_signals on one date over scan bars of any shape: high,  *)
(* low and close are any prices or NaN, in no particular order (the feed's  *)
(* values are taken as they come)                                           *)

\* a bar's fields after to_numeric(errors='coerce')
AnyValues == Prices \cup {NaN}

AnyShapes == [High : AnyValues, Low : AnyValues, Close : AnyValues]

\* three bars half an hour apart from the start of the session: a bar before
\* the sweep, the sweep and its reclaim
GeomSlots == {SessionStart(DstDay) + 30 * i : i \in 0..2}

InitGeom ==
    /\ pc = "start"
    /\ trades = <<>>
    /\ \E f \in [1..3 -> AnyShapes] : df1 = Series(GeomSlots, f)
    /\ df15 = <<FlatBar(DstDay - 1, 2), FlatBar(DstDay, 2)>>
    /\ Idle

SpecGeom == InitGeom /\ [][Next]_vars

-----------------------------------------------------------------------------
(* SpecDst: is_us_dst applied to every date of the explored years *)

Years == (BaseYear - YearSpan)..(BaseYear + YearSpan)

InitDst ==
    /\ pc = "start"
    /\ \E y \in Years : dt \in Ymd2Ord(y, 1, 1)..Ymd2Ord(y, 12, 31)
    /\ dst = FALSE
    /\ df1 = <<>> /\ df15 = <<>> /\ trades = <<>>
    /\ ci = 0 /\ csv = NoFile /\ sent = <<>> /\ recs = <<>>
    /\ runs = 0 /\ passes = 0 /\ fault = FALSE
    /\ web = NoWeb

AskDst ==
    /\ pc = "start"
    /\ dst' = is_us_dst(dt)
    /\ pc' = "done"
    /\ UNCHANGED <<df1, df15, trades, ci, csv, sent, recs, runs, passes, fault, dt, web>>

NextDst == AskDst

SpecDst == InitDst /\ [][NextDst]_vars

-----------------------------------------------------------------------------
(* SpecSweep: detect_signals on one date at gold prices, with prior-day low *)
(* 2040 and prior-day high 2050, over scan series long enough for a reclaim  *)
(* to fall beyond the lookahead of a sweep that has a bar before it; the     *)
(* reference series ends with the day before or has a bar of the date too    *)

\* the reference bar of the day before: high 2050, low 2040
ScenarioPrevBar(day) ==
    [time |-> At(day - 1, 10, 0), High |-> 2050, Low |-> 2040, Close |-> 2045]

\* bars around the two levels: a quiet bar at the low, a sweep of the low, a
\* reclaim of the low, a bar that does both, a sweep of the high and a
\* reclaim of the high
ScenarioShapes ==
    { [High |-> 2040, Low |-> 2040, Close |-> 2040],
      [High |-> 2040, Low |-> 2038, Close |-> 2039],
      [High |-> 2041, Low |-> 2040, Close |-> 2041],
      [High |-> 2041, Low |-> 2038, Close |-> 2041],
      [High |-> 2052, Low |-> 2050, Close |-> 2051],
      [High |-> 2050, Low |-> 2049, Close |-> 2049] }

\* n bars a quarter of an hour apart from the start of the session
ScenarioSlots(day, n) == {SessionStart(day) + 15 * (i - 1) : i \in 1..n}

InitSweep ==
    /\ pc = "start"
    /\ trades = <<>>
    /\ \E n \in 0..MaxSweepBars : \E f \in [1..n -> ScenarioShapes] :
         df1 = Series(ScenarioSlots(DstDay, n), f)
    /\ df15 \in { <<ScenarioPrevBar(DstDay)>>,
                  <<ScenarioPrevBar(DstDay), FlatBar(DstDay, 2045)>> }
    /\ Idle

SpecSweep == InitSweep /\ [][Next]_vars

-----------------------------------------------------------------------------
(* run_once: the identity store signals.csv and the notifier *)

\* sig_id = f"{c['entry_time']}_{c['direction']}_{c['entry']}": the three
\* renderings are one-to-one, so the string is modelled by the triple
SigId(c) == <<c.entry_time, c.direction, c.entry>>

\* the line writer.writeheader() writes
HeaderRow == [kind |-> "header", id |-> <<>>, fields |-> <<>>]

\* the line writer.writerow(row) writes
DataRow(c) ==
    [kind |-> "data", id |-> SigId(c),
     fields |-> <<c.entry_time, c.direction, c.entry, c.sl, c.tp>>]

\* pd.read_csv raises on a file with no line at all
ReadRaises(file) == file.rows = <<>>

\* 'id' in dfc.columns: read_csv takes the first line as the column names
HasIdColumn(file) == file.rows[1].kind = "header"

\* dfc['id'].astype(str).values: the id field of every line after the first
\* (a header line there reads as the text "id", which is no sig_id)
StoredIds(file) == {file.rows[r].id : r \in 2..Len(file.rows)}

\* sig_id in dfc['id'] tests the index labels 0..n-1, never a sig_id
Already_IndexMembership(file, sig_id, ioError) == FALSE

\* the value of "already" after the dedup lookup; ioError: reading fails
Already(file, sig_id, ioError) ==
    /\ file.exists
    /\ ~ioError
    /\ ~ReadRaises(file)
    /\ HasIdColumn(file)
    /\ sig_id \in StoredIds(file)

\* where run_once goes after telegram_send, were a failed send to raise
AfterNotify_Raises(ok, i, n) ==
    IF ok THEN [pc |-> "record", ci |-> i] ELSE [pc |-> "loop", ci |-> n + 1]

\* telegram_send swallows every failure: the record step follows
AfterNotify(ok, i, n) == [pc |-> "record", ci |-> i]

\* the file after "with open(CSV_FILE, 'a')": the header goes in when the
\* caller's earlier os.path.exists said there was no file; outcome "ok",
\* "open" (open fails) or "write" (the file is opened, hence created, and
\* nothing reaches it)
AppendedIf(file, row, existed, outcome) ==
    IF outcome = "ok"
    THEN [exists |-> TRUE,
          rows |-> file.rows
                   \o (IF existed THEN <<>> ELSE <<HeaderRow>>)
                   \o <<row>>]
    ELSE IF outcome = "write" THEN [file EXCEPT !.exists = TRUE]
    ELSE file

\* run_once's append with nothing running between its os.path.exists and its
\* open
Appended(file, c, outcome) == AppendedIf(file, DataRow(c), file.exists, outcome)

-----------------------------------------------------------------------------
(* SpecRun: the polling loop calling run_once on an unchanging feed *)

\* MaxBars bars on the hour from 18:00 of a daylight-saving date
RunSlots == {At(DstDay, h, 0) : h \in 18..(17 + MaxBars)}

InitRun ==
    /\ pc = "idle"
    /\ trades = <<>>
    /\ \E f \in [1..MaxBars -> BarShapes] : df1 = Series(RunSlots, f)
    /\ df15 = <<FlatBar(DstDay - 1, 2), FlatBar(DstDay, 2)>>
    /\ Idle

\* what fetch_td_series can meet: bars, a failed request (exception, status
\* other than 200, undecodable or incomplete JSON, no usable datetime), or a
\* response with no bars
FetchOutcomes == {"bars", "unavailable", "empty"}

\* fetch_td_series returns None
ReturnsNone(outcome) == outcome # "bars"

\* where the polling thread is after a cycle whose fetch gave None, were the
\* failure to propagate out of run_once and main_loop
SkippedCycle_Propagates(r) == [pc |-> "crashed", runs |-> r]

\* run_once logs a warning and returns; main_loop sleeps and polls again
SkippedCycle(r) == [pc |-> "idle", runs |-> r + 1]

\* fetch_td_series returns None for either series: the cycle is skipped
FetchNone ==
    /\ pc = "idle" /\ runs < MaxRuns
    /\ \E o15, o1 \in FetchOutcomes :
         /\ ReturnsNone(o15) \/ ReturnsNone(o1)
         /\ pc' = SkippedCycle(runs).pc
         /\ runs' = SkippedCycle(runs).runs
    /\ UNCHANGED <<df1, df15, trades, ci, csv, sent, recs, passes, fault, dt, dst, web>>

\* both series arrive and detect_signals runs
FetchDetect ==
    /\ pc = "idle" /\ runs < MaxRuns
    /\ trades' = detect_signals(df1, df15)
    /\ ci' = 1
    /\ pc' = "loop"
    /\ UNCHANGED <<df1, df15, csv, sent, recs, runs, passes, fault, dt, dst, web>>

\* the dedup lookup of candidate ci
Dedup ==
    /\ pc = "loop" /\ ci <= Len(trades)
    /\ \E ioError \in (IF csv.exists THEN BOOLEAN ELSE {FALSE}) :
         /\ fault' = (fault \/ ioError \/ (csv.exists /\ ReadRaises(csv)))
         /\ IF Already(csv, SigId(trades[ci]), ioError)
            THEN ci' = ci + 1 /\ pc' = pc
            ELSE ci' = ci /\ pc' = "notify"
    /\ UNCHANGED <<df1, df15, trades, csv, sent, recs, runs, passes, dt, dst, web>>

\* telegram_send(msg), delivered or not
Notify ==
    /\ pc = "notify"
    /\ \E ok \in BOOLEAN :
         /\ sent' = Append(sent, [id |-> SigId(trades[ci]), ok |-> ok, run |-> runs])
         /\ pc' = AfterNotify(ok, ci, Len(trades)).pc
         /\ ci' = AfterNotify(ok, ci, Len(trades)).ci
    /\ UNCHANGED <<df1, df15, trades, csv, recs, runs, passes, fault, dt, dst, web>>

\* the append of the row to signals.csv, done or failed
Record ==
    /\ pc = "record"
    /\ \E outcome \in {"ok", "open", "write"} :
         /\ csv' = Appended(csv, trades[ci], outcome)
         /\ recs' = Append(recs, [id |-> SigId(trades[ci]), ok |-> (outcome = "ok"),
                                  run |-> runs])
         /\ fault' = (fault \/ outcome # "ok")
    /\ ci' = ci + 1
    /\ pc' = "loop"
    /\ UNCHANGED <<df1, df15, trades, sent, runs, passes, dt, dst, web>>

\* the for loop is exhausted: run_once returns and main_loop sleeps
EndPass ==
    /\ pc = "loop" /\ ci > Len(trades)
    /\ runs' = runs + 1
    /\ passes' = passes + 1
    /\ pc' = "idle"
    /\ ci' = 0
    /\ trades' = <<>>
    /\ UNCHANGED <<df1, df15, csv, sent, recs, fault, dt, dst, web>>

NextRun == FetchNone \/ FetchDetect \/ Dedup \/ Notify \/ Record \/ EndPass

SpecRun == InitRun /\ [][NextRun]_vars

-----------------------------------------------------------------------------
(* SpecWeb: the process as __main__ starts it: main_loop in its polling    *)
(* thread and the Flask server, whose handlers run while a pass is under   *)
(* way. Requests are served one at a time. The feed returns the first bars  *)
(* of a series that gives no candidate at up to two bars, a buy at three    *)
(* and a buy and a sell at four.                                            *)

Routes == {"ping", "test", "signals", "force_signal"}

\* a handler that would call run_once
HandlerStartsPass_Force(route) == route = "force_signal"

\* no route calls run_once or detect_signals
HandlerStartsPass(route) == FALSE

\* the id of the row force_signal writes, "FORCE_<time>_<direction>", for the
\* n-th request; no sig_id has that form
ForcedId(n) == <<n, "FORCE", 0>>

ForcedRow(n) == [kind |-> "data", id |-> ForcedId(n), fields |-> <<>>]

\* the id of the message of /test
TestId(n) == <<n, "TEST", 0>>

InitWeb ==
    /\ pc = "boot"
    /\ trades = <<>>
    /\ \E n \in 0..4 :
         df1 = Series({SessionStart(DstDay) + 30 * i : i \in 0..(n - 1)},
                      SubSeq(BothDirections, 1, n))
    /\ df15 = <<FlatBar(DstDay - 1, 2), FlatBar(DstDay, 2)>>
    /\ Idle

\* Thread(target=main_loop, daemon=True).start()
StartPolling ==
    /\ pc = "boot"
    /\ pc' = "idle"
    /\ web' = [web EXCEPT !.threads = @ + 1]
    /\ UNCHANGED <<df1, df15, trades, ci, csv, sent, recs, runs, passes, fault, dt, dst>>

\* app.run(...)
Serve ==
    /\ web.threads >= 1 /\ ~web.serving
    /\ web' = [web EXCEPT !.serving = TRUE]
    /\ UNCHANGED <<pc, df1, df15, trades, ci, csv, sent, recs, runs, passes, fault, dt, dst>>

\* file_exists = os.path.exists(CSV_FILE)
RecordCheck ==
    /\ pc = "record"
    /\ web' = [web EXCEPT !.file_exists = csv.exists]
    /\ pc' = "append"
    /\ UNCHANGED <<df1, df15, trades, ci, csv, sent, recs, runs, passes, fault, dt, dst>>

\* the append of run_once's row, done or failed, and the log line after it
RecordAppend ==
    /\ pc = "append"
    /\ \E outcome \in {"ok", "open", "write"} :
         /\ csv' = AppendedIf(csv, DataRow(trades[ci]), web.file_exists, outcome)
         /\ recs' = Append(recs, [id |-> SigId(trades[ci]), ok |-> (outcome = "ok"),
                                  run |-> runs])
         /\ fault' = (fault \/ outcome # "ok")
    /\ ci' = ci + 1
    /\ pc' = "loop"
    /\ UNCHANGED <<df1, df15, trades, sent, runs, passes, dt, dst, web>>

\* a request arrives and the server has a handler free for it
Accepts == web.serving /\ web.handler = "none" /\ web.reqs < MaxRequests

\* the handler's start: one more request, and one more pass if it starts one
Accepted(route) ==
    [web EXCEPT !.reqs = @ + 1,
                !.hpasses = @ + (IF HandlerStartsPass(route) THEN 1 ELSE 0)]

\* /ping and /signals: nothing is written
ServeReadOnly ==
    /\ Accepts
    /\ \E route \in {"ping", "signals"} : web' = Accepted(route)
    /\ UNCHANGED <<pc, df1, df15, trades, ci, csv, sent, recs, runs, passes, fault, dt, dst>>

\* /test: telegram_send, delivered or not
ServeTest ==
    /\ Accepts
    /\ web' = Accepted("test")
    /\ \E ok \in BOOLEAN :
         sent' = Append(sent, [id |-> TestId(web.reqs + 1), ok |-> ok, run |-> runs])
    /\ UNCHANGED <<pc, df1, df15, trades, ci, csv, recs, runs, passes, fault, dt, dst>>

\* /force_signal up to exists = os.path.exists(CSV_FILE)
ForceSend ==
    /\ Accepts
    /\ web' = [Accepted("force_signal") EXCEPT !.handler = "force",
                                               !.exists = csv.exists]
    /\ \E ok \in BOOLEAN :
         sent' = Append(sent, [id |-> ForcedId(web.reqs + 1), ok |-> ok, run |-> runs])
    /\ UNCHANGED <<pc, df1, df15, trades, ci, csv, recs, runs, passes, fault, dt, dst>>

\* /force_signal: the append of its row, done or failed, and the response
ForceAppend ==
    /\ web.handler = "force"
    /\ \E outcome \in {"ok", "open", "write"} :
         /\ csv' = AppendedIf(csv, ForcedRow(web.reqs), web.exists, outcome)
         /\ fault' = (fault \/ outcome # "ok")
    /\ web' = [web EXCEPT !.handler = "none"]
    /\ UNCHANGED <<pc, df1, df15, trades, ci, sent, recs, runs, passes, dt, dst>>

NextWeb ==
    \/ StartPolling \/ Serve
    \/ FetchNone \/ FetchDetect \/ Dedup \/ Notify \/ RecordCheck \/ RecordAppend
    \/ EndPass
    \/ ServeReadOnly \/ ServeTest \/ ForceSend \/ ForceAppend

SpecWeb == InitWeb /\ [][NextWeb]_vars

-----------------------------------------------------------------------------
(* What the claims about detect_signals speak of, stated from the bars *)

Directions == {"buy", "sell"}

\* the reference bars of the day before
PrevRefBars(day) == {i \in DOMAIN df15 : DateOf(df15[i].time) = day - 1}

\* compute_prev_day_levels walks the dates of the reference series: a date
\* has levels when the reference series has bars on it and on the day before
LevelsDefined(day) ==
    /\ PrevRefBars(day) # {}
    /\ \E i \in DOMAIN df15 : DateOf(df15[i].time) = day

\* What a date's scan works on: the session window, the bars of the scan
\* series inside the padded window, and the prior-day low and high.
DayContext(day) ==
    LET start == SessionStart(day)
        end == SessionEnd(day)
        has == LevelsDefined(day)
    IN  [day |-> day, start |-> start, end |-> end, has |-> has,
         w |-> SelectSeq(df1, LAMBDA b : b.time >= start - 60 /\ b.time <= end + 60),
         PDL |-> IF has THEN SetMin({df15[i].Low : i \in PrevRefBars(day)}) ELSE NaN,
         PDH |-> IF has THEN SetMax({df15[i].High : i \in PrevRefBars(day)}) ELSE NaN]

\* the level of a direction: prior-day low for a buy, prior-day high for a sell
LevelOf(c, direction) == IF direction = "buy" THEN c.PDL ELSE c.PDH

IsSweep(w, direction, L, si) ==
    /\ si \in 0..(Len(w) - 1)
    /\ IF direction = "buy" THEN w[si + 1].Low < L ELSE w[si + 1].High > L

IsReclaim(w, direction, L, j) ==
    IF direction = "buy" THEN w[j + 1].Close > L ELSE w[j + 1].Close < L

\* ri is the first bar after si, at most three bars later, whose close reclaims L
IsFirstReclaim(w, direction, L, si, ri) ==
    /\ ri \in (si + 1)..(Len(w) - 1)
    /\ ri <= si + 3
    /\ IsReclaim(w, direction, L, ri)
    /\ \A j \in (si + 1)..(ri - 1) : ~IsReclaim(w, direction, L, j)

PreBars(si) == {k \in 0..(si - 1) : k >= si - 3}

\* the reclaim close is strictly beyond the extreme of the pre-sweep bars
BeyondPreSlice(w, direction, si, ri) ==
    /\ PreBars(si) # {}
    /\ IF direction = "buy"
       THEN \A k \in PreBars(si) : w[ri + 1].Close > w[k + 1].High
       ELSE \A k \in PreBars(si) : w[ri + 1].Close < w[k + 1].Low

RiskOf(w, direction, si, ri) ==
    IF direction = "buy" THEN w[ri + 1].Close - w[si + 1].Low
    ELSE w[si + 1].High - w[ri + 1].Close

\* sweep si passes all checks with reclaim bar ri
QualifiesWith(c, direction, si, ri) ==
    /\ c.has
    /\ IsSweep(c.w, direction, LevelOf(c, direction), si)
    /\ IsFirstReclaim(c.w, direction, LevelOf(c, direction), si, ri)
    /\ c.start <= c.w[ri + 1].time /\ c.w[ri + 1].time <= c.end
    /\ BeyondPreSlice(c.w, direction, si, ri)
    /\ RiskOf(c.w, direction, si, ri) > 0

Qualifying(c, direction) ==
    {si \in 0..(Len(c.w) - 1) :
        \E ri \in (si + 1)..(Len(c.w) - 1) : QualifiesWith(c, direction, si, ri)}

\* the candidate derived from the qualifying sweep si
DerivedFrom(c, direction, si) ==
    LET w == c.w
        ri == CHOOSE r \in (si + 1)..(Len(w) - 1) : QualifiesWith(c, direction, si, r)
        entry == w[ri + 1].Close
        sl == IF direction = "buy" THEN w[si + 1].Low ELSE w[si + 1].High
    IN  [entry_time |-> w[ri + 1].time, direction |-> direction, entry |-> entry,
         sl |-> sl,
         tp |-> IF direction = "buy" THEN entry + 3 * (entry - sl)
                ELSE entry - 3 * (sl - entry),
         day |-> c.day]

TradesOf(day, direction) ==
    {i \in DOMAIN trades : trades[i].day = day /\ trades[i].direction = direction}

TradeSet == {trades[i] : i \in DOMAIN trades}

-----------------------------------------------------------------------------
\* C2: every candidate detect_signals appends has a positive risk distance,
\* entry above stop for a buy and below it for a sell, and its target is
\* exactly entry + 3*(entry - stop) for a buy, entry - 3*(stop - entry) for a
\* sell.
C2_RiskAndTarget ==
    pc = "done" =>
        \A i \in DOMAIN trades :
            LET t == trades[i]
            IN  /\ t.entry # t.sl
                /\ t.direction = "buy" =>
                      t.entry > t.sl /\ t.tp = t.entry + 3 * (t.entry - t.sl)
                /\ t.direction = "sell" =>
                      t.entry < t.sl /\ t.tp = t.entry - 3 * (t.sl - t.entry)

\* a pass that returned a buy and a sell candidate
C2_Witness ==
    /\ pc = "done"
    /\ \E i, j \in DOMAIN trades :
          trades[i].direction = "buy" /\ trades[j].direction = "sell"

\* C3: within one direction and date, when sweeps qualify the candidate
\* returned is the one derived from the largest qualifying sweep index.
C3_MostRecentSweep ==
    pc = "done" =>
        \A day \in Dates(df1) :
            LET c == DayContext(day)
            IN  \A direction \in Directions :
                    LET Q == Qualifying(c, direction)
                    IN  Q # {} =>
                          {trades[i] : i \in TradesOf(day, direction)}
                              = {DerivedFrom(c, direction, SetMax(Q))}

\* two sweeps qualify and give different candidates
C3_Witness ==
    /\ pc = "done"
    /\ \E day \in Dates(df1) : \E direction \in Directions :
          LET c == DayContext(day)
              Q == Qualifying(c, direction)
          IN  /\ Cardinality(Q) >= 2
              /\ DerivedFrom(c, direction, SetMax(Q))
                    # DerivedFrom(c, direction, SetMin(Q))
              /\ TradesOf(day, direction) # {}

\* the sweeps whose first reclaiming bar lies outside the un-padded window:
\* with every bar of w inside the padded window, it lies in the pad
PadReclaimed(c, direction) ==
    {si \in 0..(Len(c.w) - 1) :
        /\ c.has
        /\ IsSweep(c.w, direction, LevelOf(c, direction), si)
        /\ \E ri \in (si + 1)..(Len(c.w) - 1) :
              /\ IsFirstReclaim(c.w, direction, LevelOf(c, direction), si, ri)
              /\ ~(c.start <= c.w[ri + 1].time /\ c.w[ri + 1].time <= c.end)}

\* C5: every candidate's entry_time lies inside the un-padded session window
\* of its date; a sweep whose first reclaiming bar is only in the pad gives no
\* candidate, and the scan goes on to the older sweeps: when an older sweep
\* qualifies, its candidate is returned.
C5_ReclaimInsideWindow ==
    pc = "done" =>
        /\ \A i \in DOMAIN trades :
              /\ SessionStart(trades[i].day) <= trades[i].entry_time
              /\ trades[i].entry_time <= SessionEnd(trades[i].day)
        /\ \A day \in Dates(df1) :
              LET c == DayContext(day)
              IN  \A direction \in Directions :
                    \A si \in PadReclaimed(c, direction) :
                        LET older == {sj \in Qualifying(c, direction) : sj < si}
                        IN  /\ si \notin Qualifying(c, direction)
                            /\ older # {} =>
                                  \E i \in TradesOf(day, direction) :
                                      \E sj \in Qualifying(c, direction) :
                                          trades[i] = DerivedFrom(c, direction, sj)

\* the newest sweep that has a reclaim has it in the pad, and an older sweep
\* gave the candidate
C5_Witness ==
    /\ pc = "done"
    /\ \E day \in Dates(df1) : \E direction \in Directions :
          LET c == DayContext(day)
              Q == Qualifying(c, direction)
          IN  /\ Q # {}
              /\ \E si \in PadReclaimed(c, direction) : si > SetMax(Q)
              /\ {trades[i] : i \in TradesOf(day, direction)}
                    = {DerivedFrom(c, direction, SetMax(Q))}

\* C6: the pre-sweep filter is strict and mandatory. A sweep whose reclaim
\* close is not strictly beyond the extreme of its pre-slice (buy: close <=
\* the maximum high; sell: close >= the minimum low), or whose pre-slice is
\* empty, is rejected; and every candidate comes from a sweep whose reclaim
\* close is strictly beyond that extreme.
C6_StrictPreFilter ==
    pc = "done" =>
        \A day \in Dates(df1) :
            LET c == DayContext(day)
            IN  \A direction \in Directions :
                  LET L == LevelOf(c, direction)
                      idx == 0..(Len(c.w) - 1)
                  IN  /\ c.has =>
                            \A si \in idx : \A ri \in idx :
                                ( /\ IsSweep(c.w, direction, L, si)
                                  /\ IsFirstReclaim(c.w, direction, L, si, ri)
                                  /\ ~BeyondPreSlice(c.w, direction, si, ri) )
                                => TrySweep(c.w, direction, L, c.start, c.end,
                                            day, si) = <<>>
                      /\ \A i \in TradesOf(day, direction) :
                            \E si \in idx : \E ri \in idx :
                                /\ IsSweep(c.w, direction, L, si)
                                /\ IsFirstReclaim(c.w, direction, L, si, ri)
                                /\ BeyondPreSlice(c.w, direction, si, ri)
                                /\ trades[i].entry_time = c.w[ri + 1].time
                                /\ trades[i].entry = c.w[ri + 1].Close
                                /\ trades[i].sl = IF direction = "buy"
                                                  THEN c.w[si + 1].Low
                                                  ELSE c.w[si + 1].High

\* the reclaim close equals the extreme of the pre-slice
AtPreSliceExtreme(w, direction, si, ri) ==
    /\ PreBars(si) # {}
    /\ IF direction = "buy"
       THEN w[ri + 1].Close = SetMax({w[k + 1].High : k \in PreBars(si)})
       ELSE w[ri + 1].Close = SetMin({w[k + 1].Low : k \in PreBars(si)})

\* a sweep reclaimed inside the window whose reclaim close equals the
\* pre-slice extreme, and no candidate in that direction
C6_Witness ==
    /\ pc = "done"
    /\ \E day \in Dates(df1) : \E direction \in Directions :
          LET c == DayContext(day)
              L == LevelOf(c, direction)
              idx == 0..(Len(c.w) - 1)
          IN  /\ c.has
              /\ TradesOf(day, direction) = {}
              /\ \E si \in idx : \E ri \in idx :
                    /\ IsSweep(c.w, direction, L, si)
                    /\ IsFirstReclaim(c.w, direction, L, si, ri)
                    /\ c.start <= c.w[ri + 1].time /\ c.w[ri + 1].time <= c.end
                    /\ AtPreSliceExtreme(c.w, direction, si, ri)

\* C7: detect_signals returns at most one candidate per (date, direction),
\* hence at most two per date.
C7_OnePerDirectionPerDate ==
    pc = "done" =>
        /\ \A i, j \in DOMAIN trades :
              (trades[i].day = trades[j].day
                  /\ trades[i].direction = trades[j].direction) => i = j
        /\ \A day \in Dates(df1) :
              Cardinality({i \in DOMAIN trades : trades[i].day = day}) <= 2

\* two sweeps of one direction qualify on a date and one candidate is returned
C7_Witness ==
    /\ pc = "done"
    /\ \E day \in Dates(df1) : \E direction \in Directions :
          /\ Cardinality(Qualifying(DayContext(day), direction)) >= 2
          /\ Cardinality(TradesOf(day, direction)) = 1

\* the trades of a date, in the order detect_signals returned them
TradesOn(day) == SelectSeq(trades, LAMBDA t : t.day = day)

SeqSet(q) == {q[i] : i \in DOMAIN q}

\* C4: for every date d of the scan series such that the reference series has
\* no bar dated d-1, compute_prev_day_levels has no entry for d and
\* detect_signals returns no candidate of date d, in either direction.
C4_NoLevelsNoCandidate ==
    pc = "done" =>
        \A d \in Dates(df1) :
            PrevRefBars(d) = {} =>
                /\ d \notin DOMAIN compute_prev_day_levels(df15)
                /\ \A i \in DOMAIN trades :
                      /\ trades[i].day # d
                      /\ DateOf(trades[i].entry_time) # d

\* a date with reference bars on it but none on the day before, whose scan
\* bars hold a sweep and reclaim around some price, and no candidate on it
C4_Witness ==
    /\ pc = "done"
    /\ \E d \in Dates(df1) :
          /\ PrevRefBars(d) = {}
          /\ \E i \in DOMAIN df15 : DateOf(df15[i].time) = d
          /\ \E L \in Prices :
                DayTradesWithBias(WindowDf(df1, SessionStart(d), SessionEnd(d)),
                                  L, L, SessionStart(d), SessionEnd(d), d,
                                  "neutral") # <<>>
          /\ TradesOn(d) = <<>>

\* C8: bias never suppresses a direction. For the bars, window and levels of
\* a date the set of candidates is the same under bull, neutral and bear, and
\* is the set detect_signals returned; every direction with a qualifying
\* sweep has its candidate; buys precede sells unless the bias is bear, and
\* sells precede buys when it is.
C8_BiasOnlyOrders ==
    pc = "done" =>
        \A day \in Dates(df1) :
            LET c == DayContext(day)
                got == TradesOn(day)
                under(b) == DayTradesWithBias(c.w, c.PDL, c.PDH, c.start, c.end,
                                              day, b)
            IN  (c.has /\ c.w # <<>>) =>
                  /\ SeqSet(under("bull")) = SeqSet(got)
                  /\ SeqSet(under("neutral")) = SeqSet(got)
                  /\ SeqSet(under("bear")) = SeqSet(got)
                  /\ \A direction \in Directions :
                        Qualifying(c, direction) # {}
                            => TradesOf(day, direction) # {}
                  /\ \A i, j \in DOMAIN got :
                        (i < j /\ got[i].direction # got[j].direction) =>
                            got[i].direction =
                                IF Bias(df15, day) = "bear" THEN "sell" ELSE "buy"

\* a bear date on which both directions gave a candidate, the sell first
C8_Witness ==
    /\ pc = "done"
    /\ \E day \in Dates(df1) :
          /\ Bias(df15, day) = "bear"
          /\ Len(TradesOn(day)) = 2
          /\ TradesOn(day)[1].direction = "sell"
          /\ TradesOn(day)[2].direction = "buy"

-----------------------------------------------------------------------------
(* What the claim about is_us_dst speaks of *)

\* 2024-03-10 was a Sunday
IsSunday(o) == (o - Ymd2Ord(2024, 3, 10)) % 7 = 0

\* the year a date of the explored years is in
CalendarYear(o) ==
    CHOOSE y \in Years : Ymd2Ord(y, 1, 1) <= o /\ o <= Ymd2Ord(y, 12, 31)

\* C9: for every year, second_sunday_of_march is a Sunday with day of month
\* 8..14, first_sunday_of_november is a Sunday with day of month 1..7 (2024:
\* 03-10 and 11-03), the start precedes the end, and is_us_dst(d) is true
\* exactly when start <= d < end of d's year.
C9_DstRule ==
    LET y == CalendarYear(dt)
        start == second_sunday_of_march(y)
        end == first_sunday_of_november(y)
    IN  /\ IsSunday(start)
        /\ start \in Ymd2Ord(y, 3, 8)..Ymd2Ord(y, 3, 14)
        /\ IsSunday(end)
        /\ end \in Ymd2Ord(y, 11, 1)..Ymd2Ord(y, 11, 7)
        /\ start < end
        /\ second_sunday_of_march(2024) = Ymd2Ord(2024, 3, 10)
        /\ first_sunday_of_november(2024) = Ymd2Ord(2024, 11, 3)
        /\ pc = "done" => (dst <=> (start <= dt /\ dt < end))

\* the first Sunday of November itself is asked about and is not in DST
C9_Witness ==
    /\ pc = "done"
    /\ dt = first_sunday_of_november(CalendarYear(dt))
    /\ dst = FALSE

-----------------------------------------------------------------------------
(* What the claims about run_once speak of *)

\* the identities of the data lines of signals.csv, line by line
RecordedIds == SelectSeq(csv.rows, LAMBDA r : r.kind = "data")

NoRepeat(q, key(_)) ==
    \A i, j \in DOMAIN q : key(q[i]) = key(q[j]) => i = j

IdOf(r) == r.id

Attempted(q, k) ==
    \E i \in DOMAIN q : q[i].id = SigId(trades[k]) /\ q[i].run = runs

C10_FailuresDoNotAbort ==
    /\ pc = "loop" =>
          \A k \in 1..Len(trades) :
              k < ci =>
                  \/ Attempted(sent, k) /\ Attempted(recs, k)
                  \/ ~Attempted(sent, k) /\ ~Attempted(recs, k)
                        /\ csv.exists /\ SigId(trades[k]) \in StoredIds(csv)
    /\ pc = "record" => Attempted(sent, ci) /\ ~Attempted(recs, ci)
    /\ pc \in {"loop", "notify", "record"} => ci <= Len(trades) + 1

\* a pass over two candidates ends after the first one's notification and
\* append both failed and the second one was notified and recorded
C10_Witness ==
    /\ pc = "loop"
    /\ Len(trades) >= 2
    /\ ci > Len(trades)
    /\ \E i \in DOMAIN sent :
          sent[i].id = SigId(trades[1]) /\ sent[i].run = runs /\ ~sent[i].ok
    /\ \E i \in DOMAIN recs :
          recs[i].id = SigId(trades[1]) /\ recs[i].run = runs /\ ~recs[i].ok
    /\ \E i \in DOMAIN sent :
          sent[i].id = SigId(trades[2]) /\ sent[i].run = runs /\ sent[i].ok
    /\ \E i \in DOMAIN recs :
          recs[i].id = SigId(trades[2]) /\ recs[i].run = runs /\ recs[i].ok

\* C11: a cycle whose fetch gives no series (the feed is unavailable or
\* returns no bars, for the scan or the reference granularity) produces no
\* candidates, sends no notification, leaves the identity store unchanged and
\* propagates no error: the polling thread is back at its sleep, from where
\* the next cycle starts. Such a cycle is the step from the sleep that does
\* not enter the candidate loop.
C11_UnavailableFeedSkipsCycle ==
    [][(pc = "idle" /\ pc' # "loop") =>
          /\ pc' = "idle"
          /\ runs' = runs + 1
          /\ trades' = <<>>
          /\ sent' = sent
          /\ recs' = recs
          /\ csv' = csv
          /\ passes' = passes]_vars

\* a skipped cycle was followed by a cycle that notified and recorded a
\* candidate
C11_Witness ==
    /\ pc = "idle"
    /\ runs = 2
    /\ passes = 1
    /\ \E i \in DOMAIN sent : sent[i].run = 1
    /\ \E i \in DOMAIN recs : recs[i].run = 1 /\ recs[i].ok

\* the sweeps of a direction that have no reclaiming close among the next
\* three bars; a sweep on the last bar is one
Unreclaimed(c, direction) ==
    {si \in 0..(Len(c.w) - 1) :
        /\ IsSweep(c.w, direction, LevelOf(c, direction), si)
        /\ \A j \in (si + 1)..(Len(c.w) - 1) :
              j <= si + 3 => ~IsReclaim(c.w, direction, LevelOf(c, direction), j)}

\* the scenario: prior-day low 2040 and high 2050; the most recent sweep of
\* the low is bar si with low 2038, it has bars before it, the up to three
\* bars before it have highs below 2041, and its first reclaiming bar ri
\* closes at 2041 inside the window
InScenario(c, si, ri) ==
    /\ c.has /\ c.PDL = 2040 /\ c.PDH = 2050
    /\ IsSweep(c.w, "buy", 2040, si)
    /\ c.w[si + 1].Low = 2038
    /\ \A sj \in (si + 1)..(Len(c.w) - 1) : ~IsSweep(c.w, "buy", 2040, sj)
    /\ IsFirstReclaim(c.w, "buy", 2040, si, ri)
    /\ c.w[ri + 1].Close = 2041
    /\ c.start <= c.w[ri + 1].time /\ c.w[ri + 1].time <= c.end
    /\ PreBars(si) # {}
    /\ \A k \in PreBars(si) : c.w[k + 1].High < 2041

RefCloses(day) ==
    LET on == SelectSeq(df15, LAMBDA b : DateOf(b.time) = day)
    IN  [i \in 1..Len(on) |-> on[i].Close]

\* close[last] - close[last - back] > 0; a NaN close makes it false
Rising(cl, back) ==
    /\ cl[Len(cl)] # NaN /\ cl[Len(cl) - back] # NaN
    /\ cl[Len(cl)] - cl[Len(cl) - back] > 0

\* the direction of the first candidate of a date on which both directions
\* gave one
FirstOfBoth(day) ==
    LET got == TradesOn(day)
    IN  IF Len(got) = 2 /\ got[1].direction # got[2].direction
        THEN got[1].direction ELSE "none"

\* C13 as claimed: bias is neutral with fewer than 3 reference bars on the
\* date; otherwise bull if close[last] - close[last-3] > 0, the close of the
\* last bar minus the close of the bar three positions before it, and bear
\* otherwise. (With exactly 3 bars there is no bar three positions before the
\* last: nothing is required of that case here.)
C13_BiasThreeBack ==
    pc = "done" =>
        \A day \in Dates(df1) :
            LET cl == RefCloses(day)
            IN  /\ Len(cl) < 3 => Bias(df15, day) = "neutral"
                /\ Len(cl) >= 4 =>
                      Bias(df15, day) = IF Rising(cl, 3) THEN "bull" ELSE "bear"

\* C13 as amended: bias is neutral with fewer than 3 reference bars on the
\* date; otherwise bull if close[last] - close[last-2] > 0, the close of the
\* last bar minus the close of the bar two positions before it (the third
\* from the end), and bear otherwise, a difference of exactly zero included.
\* Where both directions gave a candidate the sell comes first exactly when
\* that bias is bear.
C13_BiasTwoBack ==
    pc = "done" =>
        \A day \in Dates(df1) :
            LET cl == RefCloses(day)
                expected == IF Len(cl) < 3 THEN "neutral"
                            ELSE IF Rising(cl, 2) THEN "bull" ELSE "bear"
            IN  /\ Bias(df15, day) = expected
                /\ FirstOfBoth(day) # "none" =>
                      FirstOfBoth(day) = IF expected = "bear" THEN "sell" ELSE "buy"

\* four reference bars whose last close is above the close two bars before it
\* and not above the close three bars before it, and the buy ahead of the sell
C13_Witness ==
    /\ pc = "done"
    /\ \E day \in Dates(df1) :
          LET cl == RefCloses(day)
          IN  /\ Len(cl) = 4
              /\ Rising(cl, 2) /\ ~Rising(cl, 3)
              /\ cl[1] # NaN
              /\ FirstOfBoth(day) = "buy"

\* the numbers among the values of a column, NaN left out
Numbers(S) == {x \in S : x # NaN}

\* the scan context of a date with the levels as pandas computes them over
\* columns that hold NaN: the extreme of the numbers, NaN when there is none
NaNContext(day) ==
    LET c == DayContext(day)
        hs == Numbers({df15[i].High : i \in PrevRefBars(day)})
        ls == Numbers({df15[i].Low : i \in PrevRefBars(day)})
    IN  [c EXCEPT !.PDH = IF c.has /\ hs # {} THEN SetMax(hs) ELSE NaN,
                  !.PDL = IF c.has /\ ls # {} THEN SetMin(ls) ELSE NaN]

\* C14: when the reference level of a direction is NaN for a date, that
\* direction gives no candidate on that date, and detect_signals still
\* returns: every direction of every date whose level is a number gives the
\* candidate of its most recent qualifying sweep, or none when no sweep
\* qualifies, whatever the other level of the date and the levels of the
\* other dates are.
C14_NaNLevelSkipsDirection ==
    pc = "done" =>
        \A day \in Dates(df1) :
            LET c == NaNContext(day)
            IN  c.has =>
                  \A direction \in Directions :
                      LET got == {trades[i] : i \in TradesOf(day, direction)}
                          Q == Qualifying(c, direction)
                      IN  IF LevelOf(c, direction) = NaN THEN got = {}
                          ELSE IF Q = {} THEN got = {}
                          ELSE got = {DerivedFrom(c, direction, SetMax(Q))}

\* a date whose prior-day low is NaN and whose bars would give a buy at a low
\* of 2: it has its sell and no buy, and the other date has its buy
C14_Witness ==
    /\ pc = "done"
    /\ \E day \in Dates(df1) :
          LET c == NaNContext(day)
          IN  /\ c.has /\ c.PDL = NaN /\ c.PDH = 2
              /\ ScanDirection(c.w, "buy", 2, c.start, c.end, day) # <<>>
              /\ TradesOf(day, "buy") = {}
              /\ TradesOf(day, "sell") # {}
              /\ \E other \in Dates(df1) \ {day} : TradesOf(other, "buy") # {}

\* what the geometry check is given for the sweeps of a direction on a date
GeometryChecks(c, direction) ==
    {<<si, GeometryInput(c.w, direction, LevelOf(c, direction), c.start, c.end,
                         si)>> :
        si \in SweepIdxs(c.w, direction, LevelOf(c, direction))}

\* a < b < c over numbers
StrictlyBetween(a, b, c) ==
    /\ a # NaN /\ b # NaN /\ c # NaN
    /\ a < b /\ b < c

\* C16: the rejection of a non-positive risk distance is never taken. When
\* the scan of a sweep reaches the geometry check, a buy has stop = low[si]
\* < L < close[ri] = entry and a sell has entry = close[ri] < L < high[si] =
\* stop: the level lies strictly between stop and entry, the distance is
\* positive and the candidate is appended.
C16_GeometryNeverRejects ==
    pc = "done" =>
        \A day \in Dates(df1) :
            LET c == DayContext(day)
            IN  c.has =>
                  \A direction \in Directions :
                      \A p \in GeometryChecks(c, direction) :
                          p[2] # <<>> =>
                              LET g == p[2][1]
                                  L == LevelOf(c, direction)
                              IN  /\ IF direction = "buy"
                                     THEN StrictlyBetween(g.sl, L, g.entry)
                                     ELSE StrictlyBetween(g.entry, L, g.sl)
                                  /\ g.dist > 0
                                  /\ TrySweep(c.w, direction, L, c.start, c.end,
                                              day, p[1]) # <<>>

\* a sweep reaches the geometry check with a reclaim bar whose close is
\* outside its own high-low range (buy: above its high; sell: below its low),
\* and gives a candidate
C16_Witness ==
    /\ pc = "done"
    /\ trades # <<>>
    /\ \E day \in Dates(df1) : \E direction \in Directions :
          LET c == DayContext(day)
          IN  \E p \in GeometryChecks(c, direction) : \E ri \in 1..(Len(c.w) - 1) :
                  /\ p[2] # <<>>
                  /\ c.w[ri + 1].time = p[2][1].reclaim_time
                  /\ IF direction = "buy"
                     THEN c.w[ri + 1].High # NaN
                            /\ c.w[ri + 1].High < c.w[ri + 1].Close
                     ELSE c.w[ri + 1].Low > c.w[ri + 1].Close

-----------------------------------------------------------------------------
(* What the claims about the process speak of *)

\* the polling thread is inside run_once
PollingInPass == pc \in {"loop", "notify", "record", "append"}

\* detection passes under way: the polling thread's and the handlers'
InFlight == (IF PollingInPass THEN 1 ELSE 0) + web.hpasses

\* C15: at most one detection pass is in flight at any time. One polling
\* thread is started, at process start; it enters run_once only from its
\* sleep, with no pass under way, and is back at its sleep only when that
\* run_once has returned; no HTTP handler starts a pass.
C15_OnePassInFlight ==
    [][ /\ InFlight <= 1 /\ InFlight' <= 1
        /\ web'.threads <= 1
        /\ web'.threads # web.threads => pc = "boot"
        /\ (~PollingInPass /\ PollingInPass') => (pc = "idle" /\ InFlight = 0)
        /\ runs' # runs => (pc' = "idle" /\ runs' = runs + 1 /\ InFlight' = 0)
        /\ web'.hpasses = web.hpasses ]_vars

\* the polling thread is about to append a row while /force_signal, the
\* second request served, is between its existence test and its own append
C15_Witness ==
    /\ pc = "append"
    /\ web.handler = "force"
    /\ web.reqs = 2
    /\ web.threads = 1
    /\ InFlight = 1

\* C17, as far as no append has failed: whatever the interleaving of
\* run_once's record step with /force_signal, signals.csv holds exactly one
\* header line, its first, and every later line is a data record.
C17_OneHeaderFirst ==
    (~fault /\ csv.rows # <<>>) =>
        /\ csv.rows[1].kind = "header"
        /\ \A r \in 2..Len(csv.rows) : csv.rows[r].kind = "data"

=============================================================================
